---- MODULE Spec2Model ----
(***************************************************************************)
(* Model of main.py: evaluation of bull call spreads over a discrete       *)
(* scenario distribution, and selection of the spread with the greatest    *)
(* expected-profit / standard-deviation ratio.                             *)
(*                                                                         *)
(* The script's module-level tables (scenarios, call_prices, the two       *)
(* candidate lists, the rate and the months to expiry) are the inputs of   *)
(* a run; they are variables that no action changes.  The script's three   *)
(* loops are unrolled into one action per loop iteration.                  *)
(*                                                                         *)
(* Numbers: the script computes in binary floating point.  The model       *)
(* computes the same expressions, in the same order, over exact rational   *)
(* numbers (records [n, d] in lowest terms).  sqrt is kept symbolic: the   *)
(* value sqrt(v) is the record [sq |-> v], and a quotient p / sqrt(v) is   *)
(* the record [p, v]; comparisons on them are exact.                       *)
(*                                                                         *)
(* Inputs: the run of the script as written (InitScript), the run of the   *)
(* specification's worked example (InitExample), and runs over small       *)
(* strikes and prices that vary the candidate lists (InitLists), the keys  *)
(* of the quote table (InitMissing), the rate and the holding period       *)
(* (InitRates), and the quotes and the scenario distribution (InitQuotes). *)
(***************************************************************************)
EXTENDS Integers, Sequences, FiniteSets, TLC

VARIABLES
    scenarios,                \* main.py:9   list of [price, prob]
    annual_rf_rate,           \* main.py:19  a rational
    months_to_expiry,         \* main.py:20
    call_prices,              \* main.py:24  function strike -> premium
    lower_strike_candidates,  \* main.py:37
    upper_strike_candidates,  \* main.py:38
    results,                  \* main.py:65
    labels,                   \* main.py:66
    index_label,              \* main.py:67
    li,                       \* position of the outer loop, main.py:69
    ui,                       \* position of the inner loop, main.py:70
    best_combo,               \* main.py:143 (0 is None, k refers to results[k])
    best_ratio,               \* main.py:144
    ri,                       \* position of the selection loop, main.py:146
    output,                   \* what the script printed, main.py:156-165
    pc                        \* where the script is

inputs == <<scenarios, annual_rf_rate, months_to_expiry, call_prices,
            lower_strike_candidates, upper_strike_candidates>>
vars == <<scenarios, annual_rf_rate, months_to_expiry, call_prices,
          lower_strike_candidates, upper_strike_candidates,
          results, labels, index_label, li, ui,
          best_combo, best_ratio, ri, output, pc>>

----------------------------------------------------------------------------
(* Bounds of the model *)

MaxStrike == 3     \* strikes of the small runs are 1..MaxStrike
MaxLen == 2        \* candidate lists of the small runs have at most MaxLen entries
ProbDen == 4       \* probabilities of the small runs are multiples of 1/ProbDen
MaxMonths == 2     \* months_to_expiry is in 1..MaxMonths

----------------------------------------------------------------------------
(* Exact rational arithmetic standing for the script's float arithmetic *)

Abs(x) == IF x < 0 THEN -x ELSE x

RECURSIVE GCD(_, _)
GCD(a, b) == IF b = 0 THEN a ELSE GCD(b, a % b)

Rat(n, d) == LET g == GCD(Abs(n), d) IN [n |-> n \div g, d |-> d \div g]

FromInt(k) == [n |-> k, d |-> 1]

Zero == FromInt(0)

Add(a, b) ==
    LET l == (a.d \div GCD(a.d, b.d)) * b.d
    IN  Rat(a.n * (l \div a.d) + b.n * (l \div b.d), l)

Neg(a) == [n |-> -a.n, d |-> a.d]

Sub(a, b) == Add(a, Neg(b))

Mul(a, b) ==
    LET g1 == GCD(Abs(a.n), b.d)
        g2 == GCD(Abs(b.n), a.d)
    IN  [n |-> (a.n \div g1) * (b.n \div g2), d |-> (a.d \div g2) * (b.d \div g1)]

\* a / b for b # 0
Div(a, b) ==
    Mul(a, IF b.n > 0 THEN [n |-> b.d, d |-> b.n] ELSE [n |-> -b.d, d |-> -b.n])

\* n1/d1 < n2/d2 for d1, d2 > 0, by continued fractions (no product is formed)
RECURSIVE FracLess(_, _, _, _)
FracLess(n1, d1, n2, d2) ==
    LET q1 == n1 \div d1
        q2 == n2 \div d2
        r1 == n1 % d1
        r2 == n2 % d2
    IN  IF q1 # q2 THEN q1 < q2
        ELSE IF r2 = 0 THEN FALSE
        ELSE IF r1 = 0 THEN TRUE
        ELSE FracLess(d2, r2, d1, r1)

Less(a, b) == FracLess(a.n, a.d, b.n, b.d)

Max(a, b) == IF Less(a, b) THEN b ELSE a

\* np.sqrt(v), v >= 0: the non-negative root, kept by its square
Sqrt(v) == [sq |-> v]

\* p / s for a root s # 0: the value p / sqrt(s.sq)
DivRoot(p, s) == [p |-> p, v |-> s.sq]

\* a float constant k as a value comparable with the quotients above
Const(k) == [p |-> FromInt(k), v |-> FromInt(1)]

\* Natural numbers of any size, as sequences of base-10000 digits, lowest first
RECURSIVE ToBig(_)
ToBig(k) == IF k < 10000 THEN <<k>> ELSE <<k % 10000>> \o ToBig(k \div 10000)

RECURSIVE Strip(_)
Strip(a) ==
    IF Len(a) > 1 /\ a[Len(a)] = 0 THEN Strip(SubSeq(a, 1, Len(a) - 1)) ELSE a

RECURSIVE Carry(_, _)
Carry(a, c) ==
    IF a = <<>> THEN (IF c = 0 THEN <<>> ELSE ToBig(c))
    ELSE <<(a[1] + c) % 10000>> \o Carry(Tail(a), (a[1] + c) \div 10000)

RECURSIVE ConvSum(_, _, _, _)
ConvSum(a, b, k, i) ==
    IF i > Len(a) THEN 0
    ELSE (IF k - i + 1 \in 1..Len(b) THEN a[i] * b[k - i + 1] ELSE 0)
         + ConvSum(a, b, k, i + 1)

BigMul(a, b) ==
    Strip(Carry([k \in 1..(Len(a) + Len(b) - 1) |-> ConvSum(a, b, k, 1)], 0))

RECURSIVE BigProd(_)
BigProd(ks) == IF ks = <<>> THEN <<1>> ELSE BigMul(ToBig(ks[1]), BigProd(Tail(ks)))

RECURSIVE BigLessFrom(_, _, _)
BigLessFrom(a, b, i) ==
    IF i = 0 THEN FALSE
    ELSE IF a[i] # b[i] THEN a[i] < b[i]
    ELSE BigLessFrom(a, b, i - 1)

BigLess(a, b) ==
    IF Len(a) # Len(b) THEN Len(a) < Len(b) ELSE BigLessFrom(a, b, Len(a))

\* x.p^2 / x.v < y.p^2 / y.v, for x.v, y.v > 0, by cross multiplication
SquareLess(x, y) ==
    BigLess(BigProd(<<Abs(x.p.n), Abs(x.p.n), x.v.d, y.p.d, y.p.d, y.v.n>>),
            BigProd(<<Abs(y.p.n), Abs(y.p.n), y.v.d, x.p.d, x.p.d, x.v.n>>))

\* x > y for x = x.p / sqrt(x.v), y = y.p / sqrt(y.v), by signs and squares
Greater(x, y) ==
    IF x.p.n >= 0
    THEN IF y.p.n < 0 THEN TRUE ELSE SquareLess(y, x)
    ELSE IF y.p.n >= 0 THEN FALSE ELSE SquareLess(x, y)

\* ord('A')
OrdA == 65

\* chr(n): the one-character string of code point n (chr and ord are inverse
\* bijections between 0..1114111 and the one-character strings)
Chr(n) == [codepoint |-> n]

----------------------------------------------------------------------------
(* The script's functions and expressions *)

\* main.py:21
monthly_rf_rate == Div(annual_rf_rate, FromInt(12))

\* the short leg added instead of subtracted
PayoffShortLegAdded(final_price, lower_strike, upper_strike) ==
    Add(Max(Sub(final_price, lower_strike), Zero),
        Max(Sub(final_price, upper_strike), Zero))

\* main.py:44-53
bull_call_spread_payoff(final_price, lower_strike, upper_strike) ==
    LET long_call_payoff == Max(Sub(final_price, lower_strike), Zero)
        short_call_payoff == Neg(Max(Sub(final_price, upper_strike), Zero))
    IN  Add(long_call_payoff, short_call_payoff)

\* main.py:62: the lookup raises KeyError when a strike is no key of call_prices
HasQuotes(lower_strike, upper_strike) ==
    /\ lower_strike \in DOMAIN call_prices
    /\ upper_strike \in DOMAIN call_prices

RECURSIVE Power(_, _)
Power(a, k) == IF k = 0 THEN FromInt(1) ELSE Mul(a, Power(a, k - 1))

\* the cost compounded once per month to expiry
CostCompoundedPerMonth(lower_strike, upper_strike, monthly_rate) ==
    Mul(FromInt(call_prices[lower_strike] - call_prices[upper_strike]),
        Power(Add(FromInt(1), monthly_rate), months_to_expiry))

\* main.py:55-63
future_value_of_spread_cost(lower_strike, upper_strike, monthly_rate) ==
    LET cost_now == call_prices[lower_strike] - call_prices[upper_strike]
    IN  Mul(FromInt(cost_now), Add(FromInt(1), monthly_rate))

\* the spread payoffs without the cost taken off
PayoffsGross(lower, upper, cost_future_value) ==
    [s \in 1..Len(scenarios) |->
        bull_call_spread_payoff(FromInt(scenarios[s].price),
                                FromInt(lower), FromInt(upper))]

\* main.py:79-87
Payoffs(lower, upper, cost_future_value) ==
    [s \in 1..Len(scenarios) |->
        Sub(bull_call_spread_payoff(FromInt(scenarios[s].price),
                                    FromInt(lower), FromInt(upper)),
            cost_future_value)]

\* main.py:90-93: sum() adds from 0, left to right
RECURSIVE SumProfit(_, _)
SumProfit(payoffs, n) ==
    IF n = 0 THEN Zero
    ELSE Add(SumProfit(payoffs, n - 1), Mul(scenarios[n].prob, payoffs[n]))

ExpectedProfit(payoffs) == SumProfit(payoffs, Len(scenarios))

\* main.py:97-99
RECURSIVE SumVar(_, _, _)
SumVar(payoffs, expected_profit, n) ==
    IF n = 0 THEN Zero
    ELSE LET dev == Sub(payoffs[n], expected_profit)
         IN  Add(SumVar(payoffs, expected_profit, n - 1),
                 Mul(scenarios[n].prob, Mul(dev, dev)))

RECURSIVE SumSquares(_, _, _)
SumSquares(payoffs, expected_profit, n) ==
    IF n = 0 THEN Zero
    ELSE LET dev == Sub(payoffs[n], expected_profit)
         IN  Add(SumSquares(payoffs, expected_profit, n - 1), Mul(dev, dev))

\* the squared deviations added without their probabilities
VarianceUnweighted(payoffs, expected_profit) ==
    SumSquares(payoffs, expected_profit, Len(scenarios))

Variance(payoffs, expected_profit) == SumVar(payoffs, expected_profit, Len(scenarios))

\* the test with >= for >
ValidPairOrEqual(lower, upper) == upper >= lower

\* main.py:71
ValidPair(lower, upper) == upper > lower

\* the letters A..Z reused after Z
LabelModulo26(index) == Chr(OrdA + (index % 26))

\* main.py:103
Label(index) == Chr(OrdA + index)

\* main.py:73-113, the body of the inner loop for one valid pair
Evaluation(lower, upper, index) ==
    LET cost_future_value == future_value_of_spread_cost(lower, upper, monthly_rf_rate)
        payoffs == Payoffs(lower, upper, cost_future_value)
        expected_profit == ExpectedProfit(payoffs)
        var == Variance(payoffs, expected_profit)
    IN  [label |-> Label(index),
         lower_strike |-> lower,
         upper_strike |-> upper,
         expected_profit |-> expected_profit,
         sd |-> Sqrt(var)]

----------------------------------------------------------------------------
(* The inputs of a run *)

Strikes == 1..MaxStrike

\* the lists of at most MaxLen strikes
StrikeLists == UNION {[1..n -> Strikes] : n \in 0..MaxLen}

\* premiums that fall as the strike rises, as in the script's table
BaseQuotes == [s \in Strikes |-> ((MaxStrike + 1 - s) * (MaxStrike + 2 - s)) \div 2]

\* the tables that quote every strike but one
TablesMissingOne == {[s \in Strikes \ {t} |-> BaseQuotes[s]] : t \in Strikes}

\* a bull, a base and a bear scenario, as in the script
BaseScenarios ==
    << [price |-> MaxStrike + 1, prob |-> Rat(1, ProbDen)],
       [price |-> 2, prob |-> Rat(ProbDen - 2, ProbDen)],
       [price |-> 0, prob |-> Rat(1, ProbDen)] >>

Premiums == {0, 1, 500}

Prices == 0..(MaxStrike + 1)

\* the two-scenario distributions over Prices whose probabilities sum to 1
TwoScenarios ==
    { << [price |-> p1, prob |-> Rat(w, ProbDen)],
         [price |-> p2, prob |-> Rat(ProbDen - w, ProbDen)] >> :
      p1 \in Prices, p2 \in Prices, w \in 0..ProbDen }

AnnualRates == {FromInt(0), FromInt(6)}

AllStrikes == [k \in Strikes |-> k]

\* main.py:9-38 as written
ScriptScenarios ==
    << [price |-> 25350, prob |-> Rat(20, 100)],
       [price |-> 24000, prob |-> Rat(60, 100)],
       [price |-> 21250, prob |-> Rat(20, 100)] >>

ScriptRate == Rat(342, 10000)

ScriptCallPrices ==
    (21000 :> 2478) @@ (21200 :> 2292) @@ (21400 :> 2111) @@ (21600 :> 1933) @@
    (21800 :> 1761) @@ (22000 :> 1594) @@ (22200 :> 1434) @@ (22400 :> 1175) @@
    (22600 :> 1124) @@ (22800 :> 884) @@ (23000 :> 780) @@ (23200 :> 645) @@
    (23400 :> 575) @@ (23600 :> 476) @@ (23800 :> 400) @@ (24000 :> 341) @@
    (24200 :> 307) @@ (24400 :> 236) @@ (24600 :> 210) @@ (24800 :> 165) @@
    (25000 :> 130) @@ (25200 :> 101) @@ (25400 :> 88) @@ (25600 :> 75) @@
    (25800 :> 67) @@ (26000 :> 47) @@ (26200 :> 39) @@ (26400 :> 31) @@
    (26600 :> 35) @@ (26800 :> 20) @@ (27000 :> 16) @@ (27200 :> 13) @@
    (27400 :> 11) @@ (27600 :> 9) @@ (27800 :> 8) @@ (28000 :> 8) @@
    (28200 :> 7) @@ (28400 :> 6) @@ (28600 :> 5) @@ (28800 :> 4) @@
    (29000 :> 3) @@ (29200 :> 1) @@ (29400 :> 1) @@ (29600 :> 1)

ScriptLower == <<22000, 22400, 22800, 23200, 23600, 24000, 24400, 24800>>
ScriptUpper == <<24200, 24600, 25000, 25400, 25800, 26200, 26600, 27000>>

\* the run of the script as written
InitScript ==
    /\ scenarios = ScriptScenarios
    /\ annual_rf_rate = ScriptRate
    /\ months_to_expiry = 1
    /\ call_prices = ScriptCallPrices
    /\ lower_strike_candidates = ScriptLower
    /\ upper_strike_candidates = ScriptUpper

\* the script's scenarios with one candidate pair, its two quotes and a zero rate
InitExample ==
    /\ scenarios = ScriptScenarios
    /\ annual_rf_rate = FromInt(0)
    /\ months_to_expiry = 1
    /\ call_prices = (22000 :> 1594) @@ (24200 :> 307)
    /\ lower_strike_candidates = <<22000>>
    /\ upper_strike_candidates = <<24200>>

\* any two candidate lists, over a table that quotes every strike
InitLists ==
    /\ scenarios = BaseScenarios
    /\ annual_rf_rate = FromInt(6)
    /\ months_to_expiry = 1
    /\ call_prices = BaseQuotes
    /\ lower_strike_candidates \in StrikeLists
    /\ upper_strike_candidates \in StrikeLists

\* any list of upper candidates, over a table that lacks a strike
InitMissing ==
    /\ scenarios = BaseScenarios
    /\ annual_rf_rate = FromInt(6)
    /\ months_to_expiry = 1
    /\ call_prices \in TablesMissingOne
    /\ lower_strike_candidates = AllStrikes
    /\ upper_strike_candidates \in StrikeLists

\* any rate and holding period
InitRates ==
    /\ scenarios = BaseScenarios
    /\ annual_rf_rate \in AnnualRates
    /\ months_to_expiry \in 1..MaxMonths
    /\ call_prices = BaseQuotes
    /\ lower_strike_candidates = AllStrikes
    /\ upper_strike_candidates = AllStrikes

\* any quotes and any two scenarios, over all the pairs of strikes
InitQuotes ==
    /\ scenarios \in TwoScenarios
    /\ annual_rf_rate = FromInt(0)
    /\ months_to_expiry = 1
    /\ call_prices \in [Strikes -> Premiums]
    /\ lower_strike_candidates = AllStrikes
    /\ upper_strike_candidates = AllStrikes

\* main.py:65-67; best_combo and best_ratio are bound at main.py:143-144
Init ==
    /\ \/ InitScript
       \/ InitExample
       \/ InitLists
       \/ InitMissing
       \/ InitRates
       \/ InitQuotes
    /\ results = <<>>
    /\ labels = <<>>
    /\ index_label = 0
    /\ li = 1
    /\ ui = 1
    /\ best_combo = 0
    /\ best_ratio = Const(-999)
    /\ ri = 1
    /\ output = ""
    /\ pc = "enumerate"

----------------------------------------------------------------------------
(* The steps of the script *)

InLoop ==
    /\ pc = "enumerate"
    /\ li <= Len(lower_strike_candidates)
    /\ upper_strike_candidates # <<>>

ls == lower_strike_candidates[li]
us == upper_strike_candidates[ui]

\* main.py:69-70: the next iteration of the nested loops
NextPair ==
    IF ui < Len(upper_strike_candidates)
    THEN li' = li /\ ui' = ui + 1
    ELSE li' = li + 1 /\ ui' = 1

\* main.py:71, the test fails
SkipPair ==
    /\ InLoop
    /\ ~ValidPair(ls, us)
    /\ NextPair
    /\ UNCHANGED <<inputs, results, labels, index_label,
                   best_combo, best_ratio, ri, output, pc>>

\* main.py:71-113
EvaluatePair ==
    /\ InLoop
    /\ ValidPair(ls, us)
    /\ HasQuotes(ls, us)
    /\ LET r == Evaluation(ls, us, index_label)
       IN  /\ index_label' = index_label + 1
           /\ labels' = Append(labels, r.label)
           /\ results' = Append(results, r)
    /\ NextPair
    /\ UNCHANGED <<inputs, best_combo, best_ratio, ri, output, pc>>

\* main.py:62 raises KeyError, which nothing catches
RaiseKeyError ==
    /\ InLoop
    /\ ValidPair(ls, us)
    /\ ~HasQuotes(ls, us)
    /\ pc' = "KeyError"
    /\ UNCHANGED <<inputs, results, labels, index_label, li, ui,
                   best_combo, best_ratio, ri, output>>

\* main.py:119-144: the loops are over, the plot is drawn
Plot ==
    /\ pc = "enumerate"
    /\ ~InLoop
    /\ best_combo' = 0
    /\ best_ratio' = Const(-999)
    /\ ri' = 1
    /\ pc' = "select"
    /\ UNCHANGED <<inputs, results, labels, index_label, li, ui, output>>

InSelection ==
    /\ pc = "select"
    /\ ri <= Len(results)

\* main.py:151
Ratio(r) == DivRoot(r.expected_profit, r.sd)

\* the test with >= for >
BetterOrEqual(ratio, best) == ~Greater(best, ratio)

\* main.py:152
Better(ratio, best) == Greater(ratio, best)

\* main.py:149-150
SelectSkip ==
    /\ InSelection
    /\ results[ri].sd = Sqrt(Zero)
    /\ ri' = ri + 1
    /\ UNCHANGED <<inputs, results, labels, index_label, li, ui,
                   best_combo, best_ratio, output, pc>>

\* main.py:151-154
SelectBetter ==
    /\ InSelection
    /\ results[ri].sd # Sqrt(Zero)
    /\ Better(Ratio(results[ri]), best_ratio)
    /\ best_ratio' = Ratio(results[ri])
    /\ best_combo' = ri
    /\ ri' = ri + 1
    /\ UNCHANGED <<inputs, results, labels, index_label, li, ui, output, pc>>

\* main.py:151-152, the test fails
SelectKeep ==
    /\ InSelection
    /\ results[ri].sd # Sqrt(Zero)
    /\ ~Better(Ratio(results[ri]), best_ratio)
    /\ ri' = ri + 1
    /\ UNCHANGED <<inputs, results, labels, index_label, li, ui,
                   best_combo, best_ratio, output, pc>>

\* main.py:156-165
Report ==
    /\ pc = "select"
    /\ ri > Len(results)
    /\ output' = IF best_combo # 0
                 THEN "Optimal combination based on (Expected Profit/SD) ratio:"
                 ELSE "No valid combination found."
    /\ pc' = "done"
    /\ UNCHANGED <<inputs, results, labels, index_label, li, ui,
                   best_combo, best_ratio, ri>>

Next ==
    \/ SkipPair
    \/ EvaluatePair
    \/ RaiseKeyError
    \/ Plot
    \/ SelectSkip
    \/ SelectBetter
    \/ SelectKeep
    \/ Report

Spec == Init /\ [][Next]_vars

----------------------------------------------------------------------------
(* Vocabulary of the properties *)

LowerLen == Len(lower_strike_candidates)
UpperLen == Len(upper_strike_candidates)

\* the Cartesian product in loop order: lower candidates outside, upper inside
FlatPairs ==
    [t \in 1..(LowerLen * UpperLen) |->
        << lower_strike_candidates[((t - 1) \div UpperLen) + 1],
           upper_strike_candidates[((t - 1) % UpperLen) + 1] >>]

\* how many pairs of FlatPairs the loops have been through
Processed == IF UpperLen = 0 THEN 0 ELSE (li - 1) * UpperLen + (ui - 1)

IsBullPair(p) == p[2] > p[1]

IsQuotedPair(p) == p[1] \in DOMAIN call_prices /\ p[2] \in DOMAIN call_prices

IsQuotedBullPair(p) == IsBullPair(p) /\ IsQuotedPair(p)

PairsOf(rs) == [k \in 1..Len(rs) |-> <<rs[k].lower_strike, rs[k].upper_strike>>]

AllQuoted ==
    /\ \A a \in 1..LowerLen : lower_strike_candidates[a] \in DOMAIN call_prices
    /\ \A b \in 1..UpperLen : upper_strike_candidates[b] \in DOMAIN call_prices

EnumerationOver == pc \in {"select", "done"}

Terminated == pc \in {"done", "KeyError"}

PositiveSD(r) == r.sd.sq.n > 0

PositiveResults == {k \in 1..Len(results) : PositiveSD(results[k])}

\* results[j] has a ratio at least that of results[k]
RatioAtLeast(j, k) == ~Greater(Ratio(results[k]), Ratio(results[j]))

\* the positive-SD results whose ratio no positive-SD result exceeds
TopResults == {k \in PositiveResults : \A j \in PositiveResults : RatioAtLeast(k, j)}

IntMax(a, b) == IF a > b THEN a ELSE b

\* max(finalPrice - lower, 0) - max(finalPrice - upper, 0) over the integers
PayoffFormula(price, lower, upper) == IntMax(price - lower, 0) - IntMax(price - upper, 0)

\* (quote[lower] - quote[upper]) * (1 + annual / 12)
CostFormula(lower, upper) ==
    Rat((call_prices[lower] - call_prices[upper]) * (12 * annual_rf_rate.d + annual_rf_rate.n),
        12 * annual_rf_rate.d)

NetPayoffs(r) ==
    Payoffs(r.lower_strike, r.upper_strike,
            future_value_of_spread_cost(r.lower_strike, r.upper_strike, monthly_rf_rate))

RECURSIVE WeightedSumFrom(_, _)
WeightedSumFrom(xs, i) ==
    IF i > Len(scenarios) THEN Zero
    ELSE Add(Mul(scenarios[i].prob, xs[i]), WeightedSumFrom(xs, i + 1))

RECURSIVE ProbSumFrom(_)
ProbSumFrom(i) ==
    IF i > Len(scenarios) THEN Zero ELSE Add(scenarios[i].prob, ProbSumFrom(i + 1))

ProbabilitiesSumToOne ==
    /\ \A i \in 1..Len(scenarios) : scenarios[i].prob.n >= 0
    /\ ProbSumFrom(1) = FromInt(1)

----------------------------------------------------------------------------
(* Properties *)

\* C1: when every candidate strike is quoted, the results hold exactly the pairs
\* of the Cartesian product with upper > lower that the loops have been through,
\* once each, in loop order (lower candidates outside, upper candidates inside),
\* and no pair with upper <= lower; the run does not stop before the end.
C1_ResultsAreTheBullPairsInOrder ==
    AllQuoted =>
        /\ pc # "KeyError"
        /\ PairsOf(results) = SelectSeq(SubSeq(FlatPairs, 1, Processed), IsBullPair)
        /\ EnumerationOver => Processed = LowerLen * UpperLen

C1_Witness ==
    /\ pc = "done"
    /\ AllQuoted
    /\ lower_strike_candidates = <<1, 3>>
    /\ upper_strike_candidates = <<2, 1>>
    /\ PairsOf(results) = << <<1, 2>> >>

\* C2: at the end of a run, if some result has a standard deviation > 0 then a
\* result is selected, its standard deviation is > 0 and its ratio is at least
\* the ratio of every result with a standard deviation > 0.
C2_SelectsGreatestRatio ==
    (pc = "done" /\ PositiveResults # {}) =>
        /\ best_combo # 0
        /\ best_combo \in TopResults

\* C3: a run in which no result has a standard deviation > 0 ends by printing
\* "No valid combination found." with nothing selected, never in an exception.
C3_NoViableSelectionIsReported ==
    (Terminated /\ PositiveResults = {}) =>
        /\ pc = "done"
        /\ best_combo = 0
        /\ output = "No valid combination found."

\* C4: a pair with upper > lower and a strike missing from the quote table is
\* left out of the results and the run goes on: it ends with every other pair
\* with upper > lower evaluated and the selection made.
C4_MissingQuoteIsNotFatal ==
    /\ pc # "KeyError"
    /\ pc = "done" => PairsOf(results) = SelectSeq(FlatPairs, IsQuotedBullPair)

\* the prices a payoff is tried on: the scenarios' and those around the strikes
TestPrices(r) ==
    {scenarios[i].price : i \in 1..Len(scenarios)}
        \cup {r.lower_strike + e : e \in -1..1}
        \cup {r.upper_strike + e : e \in -1..1}

PayoffAt(price, r) ==
    bull_call_spread_payoff(FromInt(price), FromInt(r.lower_strike), FromInt(r.upper_strike))

\* C5: when the run has ended, for the pair of every result (upper > lower), the payoff at every price
\* is max(price - lower, 0) - max(price - upper, 0), lies in [0, upper - lower],
\* and does not fall as the price rises.
C5_PayoffBoundedAndMonotone ==
    Terminated => \A k \in 1..Len(results) :
        LET r == results[k] IN
        r.upper_strike > r.lower_strike =>
            \A p1 \in TestPrices(r) :
                /\ PayoffAt(p1, r) = FromInt(PayoffFormula(p1, r.lower_strike, r.upper_strike))
                /\ ~Less(PayoffAt(p1, r), Zero)
                /\ ~Less(FromInt(r.upper_strike - r.lower_strike), PayoffAt(p1, r))
                /\ \A p2 \in TestPrices(r) :
                      p1 <= p2 => ~Less(PayoffAt(p2, r), PayoffAt(p1, r))

C5_Witness ==
    Terminated /\ \E k \in 1..Len(results) :
        LET r == results[k] IN
        /\ r.upper_strike > r.lower_strike
        /\ \E i, j, m \in 1..Len(scenarios) :
              /\ scenarios[i].price < r.lower_strike
              /\ r.lower_strike < scenarios[j].price
              /\ scenarios[j].price < r.upper_strike
              /\ scenarios[m].price > r.upper_strike
              /\ NetPayoffs(r)[i] = Sub(Zero, CostFormula(r.lower_strike, r.upper_strike))
              /\ NetPayoffs(r)[j] = Sub(FromInt(scenarios[j].price - r.lower_strike),
                                        CostFormula(r.lower_strike, r.upper_strike))
              /\ NetPayoffs(r)[m] = Sub(FromInt(r.upper_strike - r.lower_strike),
                                        CostFormula(r.lower_strike, r.upper_strike))

ClaimedNetPayoffs(r) ==
    [i \in 1..Len(scenarios) |->
        Sub(FromInt(PayoffFormula(scenarios[i].price, r.lower_strike, r.upper_strike)),
            future_value_of_spread_cost(r.lower_strike, r.upper_strike, monthly_rf_rate))]

ExampleInputs ==
    /\ scenarios = ScriptScenarios
    /\ monthly_rf_rate = Zero
    /\ HasQuotes(22000, 24200)
    /\ call_prices[22000] = 1594
    /\ call_prices[24200] = 307

IsExampleResult(r) == r.lower_strike = 22000 /\ r.upper_strike = 24200

\* C6: when the run has ended, the expected profit of every result is the sum over the scenarios of
\* probability * (payoff - cost), the cost being that of the pair; with the
\* scenarios (25350, 0.20), (24000, 0.60), (21250, 0.20), the pair (22000, 24200),
\* the quotes 1594 and 307 and a zero rate, the cost is 1287, the net payoffs
\* are 913, 713 and -1287 and the expected profit is 353.
C6_ExpectedProfitIsWeightedSum ==
    Terminated => \A k \in 1..Len(results) :
        /\ results[k].expected_profit = WeightedSumFrom(ClaimedNetPayoffs(results[k]), 1)
        /\ (ExampleInputs /\ IsExampleResult(results[k])) =>
              /\ future_value_of_spread_cost(22000, 24200, monthly_rf_rate) = FromInt(1287)
              /\ NetPayoffs(results[k]) = <<FromInt(913), FromInt(713), FromInt(-1287)>>
              /\ results[k].expected_profit = FromInt(353)

C6_Witness ==
    /\ pc = "done"
    /\ ExampleInputs
    /\ Len(results) = 1
    /\ IsExampleResult(results[1])
    /\ results[1].expected_profit = FromInt(353)

SameNetPayoffWherePossible(r) ==
    \A i, j \in 1..Len(scenarios) :
        (scenarios[i].prob.n # 0 /\ scenarios[j].prob.n # 0)
            => NetPayoffs(r)[i] = NetPayoffs(r)[j]

\* C7: when the run has ended, with probabilities >= 0 that sum to 1, the
\* variance of every result is
\* >= 0, and it is 0 exactly when the net payoff is the same in every scenario
\* of nonzero probability.
C7_VarianceZeroIffConstantPayoff ==
    (Terminated /\ ProbabilitiesSumToOne) =>
        \A k \in 1..Len(results) :
            /\ results[k].sd.sq.n >= 0
            /\ (results[k].sd = Sqrt(Zero)) <=> SameNetPayoffWherePossible(results[k])

C7_Witness ==
    /\ Terminated
    /\ ProbabilitiesSumToOne
    /\ \E k \in 1..Len(results) :
          /\ results[k].sd = Sqrt(Zero)
          /\ \E i, j \in 1..Len(scenarios) :
                /\ scenarios[i].prob.n = 0
                /\ NetPayoffs(results[k])[i] # NetPayoffs(results[k])[j]

CostOf(r) == future_value_of_spread_cost(r.lower_strike, r.upper_strike, monthly_rf_rate)

CostNowOf(r) == call_prices[r.lower_strike] - call_prices[r.upper_strike]

\* C8: when the run has ended, for the pair of every result, the future value
\* of the cost is
\* (quote[lower] - quote[upper]) * (1 + rate) with rate = annual rate / 12, one
\* period whatever months_to_expiry is, and it is quote[lower] - quote[upper]
\* when the rate is 0.
C8_CostCompoundedOnePeriod ==
    Terminated => \A k \in 1..Len(results) :
        /\ CostOf(results[k]) = CostFormula(results[k].lower_strike, results[k].upper_strike)
        /\ annual_rf_rate = Zero => CostOf(results[k]) = FromInt(CostNowOf(results[k]))

C8_Witness ==
    Terminated /\ \E k \in 1..Len(results) :
        /\ months_to_expiry > 1
        /\ annual_rf_rate # Zero
        /\ CostNowOf(results[k]) > 0
        /\ Less(FromInt(CostNowOf(results[k])), CostOf(results[k]))

\* the positive-SD results the selection loop has been through
SeenResults == {k \in PositiveResults : k < ri}

C10_LabelsSequentialAndUnique ==
    /\ index_label = Len(results)
    /\ index_label = Len(SelectSeq(SubSeq(FlatPairs, 1, Processed), IsBullPair))
    /\ Len(labels) = Len(results)
    /\ \A k \in 1..Len(results) :
          /\ results[k].label = Chr(OrdA + (k - 1))
          /\ labels[k] = results[k].label
    /\ \A j, k \in 1..Len(results) : j # k => results[j].label # results[k].label

C10_Witness ==
    /\ pc = "done"
    /\ Len(results) > 26
    /\ Processed > Len(results)
    /\ results[1].label = Chr(65)
    /\ results[27].label = Chr(91)

====
